---- MODULE Spec2Model ----
(***************************************************************************)
(* Model of the QR code generator page (src/src/app/page.tsx): the         *)
(* cut-and-stack collator numberForCell and the print view that queries    *)
(* it, the URL validator / normaliser / suspicious-pattern check, and the  *)
(* generation handlers of the React component.                             *)
(***************************************************************************)
EXTENDS Integers, Sequences, FiniteSets, TLC

VARIABLES
    gR, gC, gN,     \* collator: grid rows, grid columns, item count
    sheet,          \* collator: print pages rendered so far
    probe,          \* collator: last single-cell query and its result
    vIn,            \* validator: the string under test
    vValid,         \* validator: <<isValidUrl(vIn)>> once called, else <<>>
    vNorm,          \* validator: <<normalizeUrl(vIn)>> once called, else <<>>
    vSusp,          \* validator: <<checkSuspiciousUrl(vIn)>> once called, else <<>>
    vClean,         \* validator: <<sanitizeUrlForDisplay(vIn)>> once called, else <<>>
    vEscaped,       \* validator: the functions whose call let an exception out
    ex,             \* extractor: the complete callback's loop over results.data
    links,          \* page state: the text of the manual input
    qrCodes,        \* page state: the record list
    currentView,    \* page state: 'options' | 'upload' | 'manual'
    toasts,         \* page state: the notifications on screen
    isProcessing,   \* page state
    upload,         \* the handleFileUpload call in flight: where it is, and its data
    lastRun,        \* history: the candidate list of the run that stored qrCodes
    memo            \* history: the input and the records of one earlier run

collVars == <<gR, gC, gN, sheet, probe>>
valVars == <<vIn, vValid, vNorm, vSusp, vClean, vEscaped>>
appVars == <<links, qrCodes, currentView, toasts, isProcessing, upload, lastRun>>
exVars == <<ex>>
obsVars == <<memo>>
vars == <<collVars, valVars, exVars, appVars, obsVars>>

(***************************************************************************)
(* Bounds of the model.                                                    *)
(***************************************************************************)
MaxR == 3
MaxC == 3
MaxN == 12
MaxPage == 4
MaxLines == 2
MaxToasts == 2
MaxRows == 3

(***************************************************************************)
(* Strings.  A string is a TLA+ string; the operators below are the        *)
(* JavaScript String methods the page uses.                                *)
(***************************************************************************)
\* const x = v; ...x...: a value named once
With(v, F(_)) == F(v)

Char(s, i) == SubSeq(s, i, i)
Take(s, k) == IF k <= 0 THEN "" ELSE SubSeq(s, 1, k)
Drop(s, k) == IF k >= Len(s) THEN "" ELSE SubSeq(s, k + 1, Len(s))

CharsOf(s) == {Char(s, i) : i \in 1 .. Len(s)}

MinOf(I) == CHOOSE i \in I : \A j \in I : i <= j
MaxOf(I) == 0 - MinOf({0 - i : i \in I})

\* index of the first / last character of s that is in set K, 0 when none
FirstIn(s, K) ==
    LET I == {i \in 1 .. Len(s) : Char(s, i) \in K}
    IN  IF I = {} THEN 0 ELSE MinOf(I)

LastIn(s, K) ==
    LET I == {i \in 1 .. Len(s) : Char(s, i) \in K}
    IN  IF I = {} THEN 0 ELSE MaxOf(I)

\* index of the first character of s that is not in set K, Len(s) + 1 when none
FirstNotIn(s, K) ==
    LET I == {i \in 1 .. Len(s) : Char(s, i) \notin K}
    IN  IF I = {} THEN Len(s) + 1 ELSE MinOf(I)

AllIn(s, K) == \A i \in 1 .. Len(s) : Char(s, i) \in K

LowerStr == "abcdefghijklmnopqrstuvwxyz"
UpperStr == "ABCDEFGHIJKLMNOPQRSTUVWXYZ"
DigitStr == "0123456789"
LowerAlpha == CharsOf(LowerStr)
UpperAlpha == CharsOf(UpperStr)
Digits == CharsOf(DigitStr)
Alpha == LowerAlpha \cup UpperAlpha

\* String.prototype.startsWith / includes
startsWith(s, p) == Len(s) >= Len(p) /\ Take(s, Len(p)) = p
endsWith(s, p) == Len(s) >= Len(p) /\ Drop(s, Len(s) - Len(p)) = p
includes(s, p) == \E i \in 1 .. Len(s) - Len(p) + 1 : SubSeq(s, i, i + Len(p) - 1) = p

\* the white space String.prototype.trim removes
WhiteSpace == {" ", "\t", "\n", "\r", "\f"}

trim(s) ==
    LET I == {i \in 1 .. Len(s) : Char(s, i) \notin WhiteSpace}
    IN  IF I = {} THEN "" ELSE SubSeq(s, MinOf(I), MaxOf(I))

lowerChar(c) ==
    IF c \in UpperAlpha
    THEN Char(LowerStr, CHOOSE i \in 1 .. 26 : Char(UpperStr, i) = c)
    ELSE c

\* String.prototype.toLowerCase
RECURSIVE toLowerCase(_)
toLowerCase(s) ==
    IF Len(s) = 0 THEN ""
    ELSE IF Len(s) = 1 THEN lowerChar(s)
    ELSE LET h == Len(s) \div 2
         IN  toLowerCase(Take(s, h)) \o toLowerCase(Drop(s, h))

\* s without its characters in set K
RECURSIVE removeChars(_, _)
removeChars(s, K) ==
    IF Len(s) = 0 THEN ""
    ELSE IF Len(s) = 1 THEN (IF s \in K THEN "" ELSE s)
    ELSE LET h == Len(s) \div 2
         IN  removeChars(Take(s, h), K) \o removeChars(Drop(s, h), K)

\* String.prototype.split('\n')
RECURSIVE splitLines(_)
splitLines(s) ==
    LET h == (Len(s) + 1) \div 2
        R == {i \in (IF h < 1 THEN 1 ELSE h) .. Len(s) : Char(s, i) = "\n"}
        L == {i \in 1 .. h - 1 : Char(s, i) = "\n"}
    IN  IF Len(s) = 0 \/ (R = {} /\ L = {}) THEN <<s>>
        ELSE LET k == IF R # {} THEN MinOf(R) ELSE MaxOf(L)
             IN  splitLines(Take(s, k - 1)) \o splitLines(Drop(s, k))

\* split on a one-character separator
RECURSIVE splitOn(_, _)
splitOn(s, sep) ==
    LET k == FirstIn(s, {sep})
    IN  IF k = 0 THEN <<s>> ELSE <<Take(s, k - 1)>> \o splitOn(Drop(s, k), sep)

\* Array.prototype.join('\n')
RECURSIVE joinLines(_)
joinLines(q) ==
    IF Len(q) = 0 THEN ""
    ELSE IF Len(q) = 1 THEN q[1]
    ELSE LET h == Len(q) \div 2
         IN  joinLines(SubSeq(q, 1, h)) \o "\n" \o joinLines(SubSeq(q, h + 1, Len(q)))

\* Array.prototype.slice(0, k)
slice0_All(q, k) == q

slice0(q, k) == SubSeq(q, 1, IF Len(q) < k THEN Len(q) ELSE k)

\* decimal digits to number, number to decimal digits
RECURSIVE parseDigits(_)
parseDigits(s) ==
    IF Len(s) = 0 THEN 0
    ELSE parseDigits(Take(s, Len(s) - 1)) * 10
            + ((CHOOSE i \in 1 .. 10 : Char(DigitStr, i) = Char(s, Len(s))) - 1)

RECURSIVE toDigits(_)
toDigits(n) ==
    IF n < 10 THEN Char(DigitStr, n + 1)
    ELSE toDigits(n \div 10) \o Char(DigitStr, (n % 10) + 1)

(***************************************************************************)
(* new URL(input), without a base: the WHATWG URL parser of the platform,  *)
(* as far as the page depends on it (whether it throws, protocol,          *)
(* hostname).  Hosts are ASCII; IPv4 parts are decimal.                    *)
(***************************************************************************)
URLFailure == [ok |-> FALSE, protocol |-> "", hostname |-> ""]
URLRecord(scheme, host) == [ok |-> TRUE, protocol |-> scheme \o ":", hostname |-> host]

SpecialSchemes == {"http", "https", "ftp", "ws", "wss", "file"}
SchemeChars == Alpha \cup Digits \cup {"+", "-", "."}
ForbiddenHost ==
    {" ", "\t", "\n", "\r", "#", "/", ":", "<", ">", "?", "@", "[", "\\", "]", "^", "|"}
ForbiddenDomain == ForbiddenHost \cup {"%", "\f"}

\* index of the ':' that ends a scheme at the start of s, 0 when s has none
SchemeEnd(s) ==
    IF Len(s) = 0 \/ Char(s, 1) \notin Alpha THEN 0
    ELSE LET k == FirstNotIn(s, SchemeChars)
         IN  IF k <= Len(s) /\ Char(s, k) = ":" THEN k ELSE 0

\* a port is digits only and at most 65535
PortOk(port) == AllIn(port, Digits) /\ (Len(port) <= 5 => parseDigits(port) <= 65535)
                    /\ (Len(port) > 5 => AllIn(Take(port, Len(port) - 5), {"0"})
                                          /\ parseDigits(Drop(port, Len(port) - 5)) <= 65535)

\* the labels of a host, a trailing empty label dropped
HostParts(host) ==
    LET q == splitOn(host, ".")
    IN  IF Len(q) > 1 /\ q[Len(q)] = "" THEN SubSeq(q, 1, Len(q) - 1) ELSE q

EndsInNumber(host) ==
    LET q == HostParts(host)
    IN  q[Len(q)] # "" /\ AllIn(q[Len(q)], Digits)

\* the IPv4 parser: the dotted-quad serialisation, or "" on failure
\* (parts of more than 9 digits are taken as out of range)
IPv4Host(host) ==
    With(HostParts(host), LAMBDA q :
        LET n == Len(q)
            numeric == \A i \in 1 .. n : q[i] # "" /\ AllIn(q[i], Digits) /\ Len(q[i]) <= 9
            v(i) == parseDigits(q[i])
            lastMax == IF n = 4 THEN 255 ELSE IF n = 3 THEN 65535
                       ELSE IF n = 2 THEN 16777215 ELSE 999999999
            o1 == IF n = 1 THEN v(1) \div 16777216 ELSE v(1)
            o2 == IF n = 1 THEN (v(1) \div 65536) % 256
                  ELSE IF n = 2 THEN v(2) \div 65536 ELSE v(2)
            o3 == IF n <= 2 THEN (v(n) \div 256) % 256
                  ELSE IF n = 3 THEN v(3) \div 256 ELSE v(3)
            o4 == v(n) % 256
        IN  IF n > 4 \/ ~ numeric THEN ""
            ELSE IF (\E i \in 1 .. n - 1 : v(i) > 255) \/ v(n) > lastMax THEN ""
            ELSE toDigits(o1) \o "." \o toDigits(o2) \o "." \o toDigits(o3)
                     \o "." \o toDigits(o4))

\* the host parser for a special scheme: the serialised host, or "" on failure
DomainHost(host) ==
    IF host = "" THEN ""
    ELSE IF Char(host, 1) = "[" THEN (IF endsWith(host, "]") THEN host ELSE "")
    ELSE IF ~ AllIn(host, CharsOf(host) \ ForbiddenDomain) THEN ""
    ELSE IF EndsInNumber(host) THEN IPv4Host(host)
    ELSE toLowerCase(host)

\* authority = [userinfo@]host[:port]; the host text and the port text
AuthorityHostPort(authority) ==
    With(Drop(authority, LastIn(authority, {"@"})), LAMBDA hp :
    With(IF startsWith(hp, "[") THEN FirstIn(hp, {"]"}) ELSE 0, LAMBDA cb :
    With(IF cb > 0
         THEN (IF cb < Len(hp) /\ Char(hp, cb + 1) = ":" THEN cb + 1 ELSE 0)
         ELSE FirstIn(hp, {":"}), LAMBDA c :
        [host |-> IF c = 0 THEN hp ELSE Take(hp, c - 1),
         port |-> IF c = 0 THEN "" ELSE Drop(hp, c),
         junk |-> cb > 0 /\ c = 0 /\ cb < Len(hp)])))

ParseSpecial(scheme, rest) ==
    With(Drop(rest, FirstNotIn(rest, {"/", "\\"}) - 1), LAMBDA a :
    With(FirstIn(a, {"/", "\\", "?", "#"}), LAMBDA e :
    With(AuthorityHostPort(IF e = 0 THEN a ELSE Take(a, e - 1)), LAMBDA hp :
    With(DomainHost(hp.host), LAMBDA host :
        IF hp.junk \/ host = "" \/ ~ PortOk(hp.port) THEN URLFailure
        ELSE URLRecord(scheme, host)))))

ParseFile(rest) ==
    IF Len(rest) >= 2 /\ AllIn(Take(rest, 2), {"/", "\\"})
    THEN With(Drop(rest, 2), LAMBDA a :
         With(FirstIn(a, {"/", "\\", "?", "#"}), LAMBDA e :
         With(IF e = 0 THEN a ELSE Take(a, e - 1), LAMBDA h :
         With(DomainHost(h), LAMBDA host :
             IF h = "" THEN URLRecord("file", "")
             ELSE IF host = "" THEN URLFailure
             ELSE URLRecord("file", IF host = "localhost" THEN "" ELSE host)))))
    ELSE URLRecord("file", "")

ParseNonSpecial(scheme, rest) ==
    IF startsWith(rest, "//")
    THEN With(Drop(rest, 2), LAMBDA a :
         With(FirstIn(a, {"/", "?", "#"}), LAMBDA e :
         With(AuthorityHostPort(IF e = 0 THEN a ELSE Take(a, e - 1)), LAMBDA hp :
             IF hp.junk \/ ~ PortOk(hp.port)
                \/ ~ AllIn(hp.host, CharsOf(hp.host) \ (ForbiddenHost \ {"[", "]", ":"}))
             THEN URLFailure
             ELSE URLRecord(scheme, hp.host))))
    ELSE URLRecord(scheme, "")

URLParse(input) ==
    With(removeChars(trim(input), {"\t", "\n", "\r"}), LAMBDA s :
    With(SchemeEnd(s), LAMBDA k :
        IF k = 0 THEN URLFailure
        ELSE With(toLowerCase(Take(s, k - 1)), LAMBDA scheme :
             IF scheme = "file" THEN ParseFile(Drop(s, k))
             ELSE IF scheme \in SpecialSchemes THEN ParseSpecial(scheme, Drop(s, k))
             ELSE ParseNonSpecial(scheme, Drop(s, k)))))


(***************************************************************************)
(* Constants of the page.                                                  *)
(***************************************************************************)
MAX_FILE_SIZE == 5 * 1024 * 1024
MAX_QR_CODES == 750
ALLOWED_SCHEMES == {"http:", "https:"}
CURSOR_BASE_URL == "https://cursor.com/"
GRID_ROWS == 3
GRID_COLS == 3
CELLS_PER_PAGE == GRID_ROWS * GRID_COLS

\* a missing optional field (warningMessage?: string)
Undefined == "<undefined>"

(***************************************************************************)
(* Validator and suspicious-pattern check.                                 *)
(***************************************************************************)
\* the characters the regular expression "." does not match
LineTerminators == {"\n", "\r"}

\* index of the first occurrence of p in s at or after index from, 0 when none
indexFrom(s, p, from) ==
    LET I == {i \in from .. Len(s) - Len(p) + 1 : SubSeq(s, i, i + Len(p) - 1) = p}
    IN  IF I = {} THEN 0 ELSE MinOf(I)

\* end of the match of /<script[^>]*>.*?<\/script>/i that starts at index i
\* of s, 0 when there is none
scriptMatchEnd(s, i) ==
    With(toLowerCase(s), LAMBDA low :
        IF indexFrom(low, "<script", i) # i THEN 0
        ELSE With(indexFrom(low, ">", i + 7), LAMBDA g :
                 IF g = 0 THEN 0
                 ELSE With(indexFrom(low, "</script>", g + 1), LAMBDA c :
                          IF c = 0 THEN 0
                          ELSE IF \E j \in g + 1 .. c - 1 : Char(s, j) \in LineTerminators
                          THEN 0
                          ELSE c + 8)))

\* .replace(/<script[^>]*>.*?<\/script>/gi, '')
RECURSIVE removeScripts(_)
removeScripts(s) ==
    LET I == {i \in 1 .. Len(s) : scriptMatchEnd(s, i) # 0}
    IN  IF I = {} THEN s
        ELSE Take(s, MinOf(I) - 1) \o removeScripts(Drop(s, scriptMatchEnd(s, MinOf(I))))

\* .replace(/<[^>]+>/g, '')
RECURSIVE removeTags(_)
removeTags(s) ==
    LET I == {i \in 1 .. Len(s) - 2 :
                 Char(s, i) = "<" /\ Char(s, i + 1) # ">" /\ indexFrom(s, ">", i + 2) # 0}
    IN  IF I = {} THEN s
        ELSE Take(s, MinOf(I) - 1) \o removeTags(Drop(s, indexFrom(s, ">", MinOf(I) + 2)))

\* .replace(/token/gi, '') for a token written in lower case
RECURSIVE removeToken(_, _)
removeToken(s, token) ==
    LET k == indexFrom(toLowerCase(s), token, 1)
    IN  IF k = 0 THEN s
        ELSE Take(s, k - 1) \o removeToken(Drop(s, k - 1 + Len(token)), token)

\* String.prototype.substring(0, k)
substring0(s, k) == IF Len(s) <= k THEN s ELSE SubSeq(s, 1, k)

sanitizeUrlForDisplay(url) ==
    With(removeToken(
             removeToken(
                 removeToken(removeTags(removeScripts(url)), "javascript:"),
                 "data:"),
             "vbscript:"),
         LAMBDA cleaned : substring0(cleaned, 200))

isValidUrlScheme_Retry(url) ==
    With(URLParse(url), LAMBDA u :
        IF u.ok /\ u.protocol \in ALLOWED_SCHEMES THEN TRUE
        ELSE With(URLParse("https://" \o url), LAMBDA v :
                 IF v.ok THEN v.protocol \in ALLOWED_SCHEMES ELSE FALSE))

isValidUrlScheme(url) ==
    With(URLParse(url), LAMBDA u :
        IF u.ok THEN u.protocol \in ALLOWED_SCHEMES
        ELSE With(URLParse("https://" \o url), LAMBDA v :
                 IF v.ok THEN v.protocol \in ALLOWED_SCHEMES ELSE FALSE))

isValidUrl(url) ==
    IF url = "" \/ Len(trim(url)) = 0 THEN FALSE
    ELSE IF ~ isValidUrlScheme(url) THEN FALSE
    ELSE IF URLParse(url).ok THEN TRUE
    ELSE IF URLParse("https://" \o url).ok THEN TRUE
    ELSE FALSE

normalizeUrl_AnyCase(url) ==
    IF startsWith(toLowerCase(url), "http://") \/ startsWith(toLowerCase(url), "https://")
    THEN url
    ELSE "https://" \o url

normalizeUrl(url) ==
    IF startsWith(url, "http://") \/ startsWith(url, "https://") THEN url
    ELSE "https://" \o url

\* the pattern table: a case-insensitive literal, or the path-traversal pattern
suspiciousPatterns ==
    << [literal |-> "javascript:", message |-> "JavaScript URLs are not allowed"],
       [literal |-> "data:", message |-> "Data URLs are not allowed"],
       [literal |-> "file:", message |-> "File URLs are not allowed"],
       [literal |-> "vbscript:", message |-> "VBScript URLs are not allowed"],
       [literal |-> "<script", message |-> "Script tags detected in URL"],
       [literal |-> "", message |-> "Path traversal detected"] >>

\* pattern.test(url)
patternTest(pat, url) ==
    IF pat.literal # "" THEN includes(toLowerCase(url), pat.literal)
    ELSE includes(url, "../") \/ includes(url, "..\\")

\* /^\d{1,3}\.\d{1,3}\.\d{1,3}\.\d{1,3}$/.test(hostname)
isDottedQuad(hostname) ==
    LET q == splitOn(hostname, ".")
    IN  Len(q) = 4 /\ \A i \in 1 .. 4 : Len(q[i]) \in 1 .. 3 /\ AllIn(q[i], Digits)

checkSuspiciousUrl_LastMatch(url) ==
    LET M == {i \in 1 .. Len(suspiciousPatterns) : patternTest(suspiciousPatterns[i], url)}
    IN  IF M # {}
        THEN [hasWarning |-> TRUE, message |-> suspiciousPatterns[MaxOf(M)].message]
        ELSE With(URLParse(IF startsWith(url, "http") THEN url ELSE "https://" \o url),
                  LAMBDA urlObj :
                 IF ~ urlObj.ok THEN [hasWarning |-> FALSE, message |-> Undefined]
                 ELSE IF isDottedQuad(toLowerCase(urlObj.hostname))
                 THEN [hasWarning |-> TRUE,
                       message |-> "Warning: IP address detected (verify source)"]
                 ELSE IF Len(url) > 200
                 THEN [hasWarning |-> TRUE, message |-> "Warning: Unusually long URL"]
                 ELSE [hasWarning |-> FALSE, message |-> Undefined])

checkSuspiciousUrl_From200(url) ==
    LET M == {i \in 1 .. Len(suspiciousPatterns) : patternTest(suspiciousPatterns[i], url)}
    IN  IF M # {}
        THEN [hasWarning |-> TRUE, message |-> suspiciousPatterns[MinOf(M)].message]
        ELSE With(URLParse(IF startsWith(url, "http") THEN url ELSE "https://" \o url),
                  LAMBDA urlObj :
                 IF ~ urlObj.ok THEN [hasWarning |-> FALSE, message |-> Undefined]
                 ELSE IF isDottedQuad(toLowerCase(urlObj.hostname))
                 THEN [hasWarning |-> TRUE,
                       message |-> "Warning: IP address detected (verify source)"]
                 ELSE IF Len(url) >= 200
                 THEN [hasWarning |-> TRUE, message |-> "Warning: Unusually long URL"]
                 ELSE [hasWarning |-> FALSE, message |-> Undefined])

checkSuspiciousUrl(url) ==
    LET M == {i \in 1 .. Len(suspiciousPatterns) : patternTest(suspiciousPatterns[i], url)}
    IN  IF M # {}
        THEN [hasWarning |-> TRUE, message |-> suspiciousPatterns[MinOf(M)].message]
        ELSE With(URLParse(IF startsWith(url, "http") THEN url ELSE "https://" \o url),
                  LAMBDA urlObj :
                 IF ~ urlObj.ok THEN [hasWarning |-> FALSE, message |-> Undefined]
                 ELSE IF isDottedQuad(toLowerCase(urlObj.hostname))
                 THEN [hasWarning |-> TRUE,
                       message |-> "Warning: IP address detected (verify source)"]
                 ELSE IF Len(url) > 200
                 THEN [hasWarning |-> TRUE, message |-> "Warning: Unusually long URL"]
                 ELSE [hasWarning |-> FALSE, message |-> Undefined])

(***************************************************************************)
(* Exceptions: new URL(s) throws a TypeError when s does not parse.  For    *)
(* each function, whether a call lets an exception out to its caller.      *)
(***************************************************************************)
newURLThrows(s) == ~ URLParse(s).ok

\* try { body } catch { handler }: an exception gets out when the body throws
\* and the handler throws too
tryCatchThrows(bodyThrows, handlerThrows) == bodyThrows /\ handlerThrows

\* the string methods and RegExp.prototype.test throw nothing on a string
sanitizeUrlForDisplayEscapes(url) == tryCatchThrows(FALSE, FALSE)

isValidUrlSchemeEscapes_NoInnerCatch(url) ==
    tryCatchThrows(newURLThrows(url), newURLThrows("https://" \o url))

isValidUrlSchemeEscapes(url) ==
    tryCatchThrows(newURLThrows(url),
                   tryCatchThrows(newURLThrows("https://" \o url), FALSE))

checkSuspiciousUrlEscapes(url) ==
    tryCatchThrows(newURLThrows(IF startsWith(url, "http") THEN url ELSE "https://" \o url),
                   FALSE)

\* the blank test and the call of isValidUrlScheme stand outside the try
isValidUrlEscapes(url) ==
    IF url = "" \/ Len(trim(url)) = 0 THEN FALSE
    ELSE IF isValidUrlSchemeEscapes(url) THEN TRUE
    ELSE IF ~ isValidUrlScheme(url) THEN FALSE
    ELSE tryCatchThrows(newURLThrows(url),
                        tryCatchThrows(newURLThrows("https://" \o url), FALSE))

\* the record limitedList.map builds for one link (index is 0-based)
qrRecord_ZeroBased(link, index) ==
    With(isValidUrl(link), LAMBDA isValid :
    With(IF isValid THEN normalizeUrl(link) ELSE link, LAMBDA normalizedUrl :
    With(checkSuspiciousUrl(normalizedUrl), LAMBDA suspiciousCheck :
        [id |-> index, url |-> normalizedUrl, isValid |-> isValid,
         hasWarning |-> suspiciousCheck.hasWarning,
         warningMessage |-> suspiciousCheck.message])))

qrRecord_WarnValidOnly(link, index) ==
    With(isValidUrl(link), LAMBDA isValid :
    With(IF isValid THEN normalizeUrl(link) ELSE link, LAMBDA normalizedUrl :
    With(checkSuspiciousUrl(normalizedUrl), LAMBDA suspiciousCheck :
        [id |-> index + 1, url |-> normalizedUrl, isValid |-> isValid,
         hasWarning |-> isValid /\ suspiciousCheck.hasWarning,
         warningMessage |-> IF isValid THEN suspiciousCheck.message ELSE Undefined])))

qrRecord(link, index) ==
    With(isValidUrl(link), LAMBDA isValid :
    With(IF isValid THEN normalizeUrl(link) ELSE link, LAMBDA normalizedUrl :
    With(checkSuspiciousUrl(normalizedUrl), LAMBDA suspiciousCheck :
        [id |-> index + 1, url |-> normalizedUrl, isValid |-> isValid,
         hasWarning |-> suspiciousCheck.hasWarning,
         warningMessage |-> suspiciousCheck.message])))

(***************************************************************************)
(* Papa.parse(text, {header: false, skipEmptyLines: true}): the rows the    *)
(* CSV library hands to the complete callback.  Records end at "\n", cells  *)
(* at ",", a cell in double quotes may hold both, and "" in it is a quote.  *)
(***************************************************************************)
Quote == "\""

odd(n) == n % 2 = 1
quoteCount(s) == Cardinality({i \in 1 .. Len(s) : Char(s, i) = Quote})

\* for each line of q, whether it begins inside a quoted cell (b: the first does)
RECURSIVE openBefore(_, _)
openBefore(q, b) ==
    IF Len(q) = 0 THEN [flags |-> <<>>, out |-> b]
    ELSE IF Len(q) = 1 THEN [flags |-> <<b>>, out |-> (b # odd(quoteCount(q[1])))]
    ELSE LET h == Len(q) \div 2
             left == openBefore(SubSeq(q, 1, h), b)
             right == openBefore(SubSeq(q, h + 1, Len(q)), left.out)
         IN  [flags |-> left.flags \o right.flags, out |-> right.out]

RECURSIVE concatAll(_)
concatAll(q) ==
    IF Len(q) = 0 THEN ""
    ELSE IF Len(q) = 1 THEN q[1]
    ELSE LET h == Len(q) \div 2
         IN  concatAll(SubSeq(q, 1, h)) \o concatAll(SubSeq(q, h + 1, Len(q)))

\* the text of a cell: a quoted cell loses its quotes, "" becomes "
cellText(f) ==
    IF Len(f) >= 2 /\ Char(f, 1) = Quote /\ Char(f, Len(f)) = Quote
    THEN LET inner == SubSeq(f, 2, Len(f) - 1)
             keep(i) == Char(inner, i) # Quote
                        \/ odd(quoteCount(Take(inner, i - 1)))
             idx == SelectSeq([i \in 1 .. Len(inner) |-> i], keep)
         IN  concatAll([k \in 1 .. Len(idx) |-> Char(inner, idx[k])])
    ELSE f

\* the cells of one record
rowCells(r) ==
    LET isSep(i) == Char(r, i) = "," /\ ~ odd(quoteCount(Take(r, i - 1)))
    IN  With(SelectSeq([i \in 1 .. Len(r) |-> i], isSep), LAMBDA seps :
            LET n == Len(seps)
                from(k) == IF k = 1 THEN 1 ELSE seps[k - 1] + 1
                to(k) == IF k = n + 1 THEN Len(r) ELSE seps[k] - 1
            IN  [k \in 1 .. n + 1 |->
                    cellText(IF from(k) > to(k) THEN "" ELSE SubSeq(r, from(k), to(k)))])

PapaParse(text) ==
    With(splitLines(text), LAMBDA lines :
    With(openBefore(lines, FALSE).flags, LAMBDA open :
        LET isStart(i) == ~ open[i]
            notEmpty(row) == ~ (Len(row) = 1 /\ Len(row[1]) = 0)
        IN  With(SelectSeq([i \in 1 .. Len(lines) |-> i], isStart), LAMBDA starts :
                LET last(k) == IF k = Len(starts) THEN Len(lines) ELSE starts[k + 1] - 1
                IN  SelectSeq([k \in 1 .. Len(starts) |->
                                  rowCells(joinLines(SubSeq(lines, starts[k], last(k))))],
                              notEmpty))))

(***************************************************************************)
(* The complete callback's extraction of candidate URLs from the rows.     *)
(***************************************************************************)
\* row[j] && row[j].trim() && row[j].toLowerCase().startsWith('referral')
isReferralCell(cell) ==
    cell # "" /\ trim(cell) # "" /\ startsWith(toLowerCase(cell), "referral")

\* the candidates one row contributes (none or one); i is the 0-based row index
rowCandidates_HeaderAnywhere(row, i) ==
    IF includes(toLowerCase(row[1]), "url") THEN <<>>
    ELSE LET R == {j \in 1 .. Len(row) : isReferralCell(row[j])}
         IN  IF R # {} THEN << CURSOR_BASE_URL \o trim(row[MinOf(R)]) >>
             ELSE IF row[1] # "" /\ trim(row[1]) # ""
             THEN LET url == trim(row[1])
                  IN  IF startsWith(url, "http://") \/ startsWith(url, "https://")
                      THEN <<url>>
                      ELSE IF startsWith(toLowerCase(url), "referral")
                      THEN << CURSOR_BASE_URL \o url >>
                      ELSE <<url>>
             ELSE <<>>

rowCandidates_AnyCell(row, i) ==
    IF i = 0 /\ includes(toLowerCase(row[1]), "url") THEN <<>>
    ELSE LET R == {j \in 1 .. Len(row) : isReferralCell(row[j])}
         IN  IF R # {} THEN << CURSOR_BASE_URL \o trim(row[MinOf(R)]) >>
             ELSE IF row[1] # "" /\ trim(row[1]) # ""
             THEN LET url == trim(row[1])
                  IN  IF startsWith(url, "http://") \/ startsWith(url, "https://")
                      THEN <<url>>
                      ELSE IF startsWith(toLowerCase(url), "referral")
                      THEN << CURSOR_BASE_URL \o url >>
                      ELSE <<url>>
             ELSE LET N == {j \in 1 .. Len(row) : trim(row[j]) # ""}
                  IN  IF N = {} THEN <<>> ELSE << trim(row[MinOf(N)]) >>

rowCandidates_DropUnknown(row, i) ==
    IF i = 0 /\ includes(toLowerCase(row[1]), "url") THEN <<>>
    ELSE LET R == {j \in 1 .. Len(row) : isReferralCell(row[j])}
         IN  IF R # {} THEN << CURSOR_BASE_URL \o trim(row[MinOf(R)]) >>
             ELSE IF row[1] # "" /\ trim(row[1]) # ""
             THEN LET url == trim(row[1])
                  IN  IF startsWith(url, "http://") \/ startsWith(url, "https://")
                      THEN <<url>>
                      ELSE IF startsWith(toLowerCase(url), "referral")
                      THEN << CURSOR_BASE_URL \o url >>
                      ELSE <<>>
             ELSE <<>>

rowCandidates(row, i) ==
    IF i = 0 /\ includes(toLowerCase(row[1]), "url") THEN <<>>
    ELSE LET R == {j \in 1 .. Len(row) : isReferralCell(row[j])}
         IN  IF R # {} THEN << CURSOR_BASE_URL \o trim(row[MinOf(R)]) >>
             ELSE IF row[1] # "" /\ trim(row[1]) # ""
             THEN LET url == trim(row[1])
                  IN  IF startsWith(url, "http://") \/ startsWith(url, "https://")
                      THEN <<url>>
                      ELSE IF startsWith(toLowerCase(url), "referral")
                      THEN << CURSOR_BASE_URL \o url >>
                      ELSE <<url>>
             ELSE <<>>

RECURSIVE flatten(_)
flatten(q) ==
    IF Len(q) = 0 THEN <<>>
    ELSE IF Len(q) = 1 THEN q[1]
    ELSE LET h == Len(q) \div 2
         IN  flatten(SubSeq(q, 1, h)) \o flatten(SubSeq(q, h + 1, Len(q)))

extractUrls(data) == flatten([i \in 1 .. Len(data) |-> rowCandidates(data[i], i - 1)])

\* the complete callback run on its own: results.data, the loop index i, the
\* urls array, and what each row pushed
ExIdle == ex = [pc |-> "idle", text |-> "", data |-> <<>>, i |-> 0, urls |-> <<>>,
                pushed |-> <<>>]

\* Papa.parse(text, ...) up to the call of complete
ParseCsv ==
    /\ ex.pc = "parse"
    /\ ex' = [ex EXCEPT !.pc = "loop", !.data = PapaParse(ex.text)]
    /\ UNCHANGED <<collVars, valVars, appVars, obsVars>>

\* one turn of for (let i = 0; i < results.data.length; i++)
LoopRow ==
    /\ ex.pc = "loop"
    /\ ex.i < Len(ex.data)
    /\ \E out \in {rowCandidates(ex.data[ex.i + 1], ex.i)} :
          ex' = [ex EXCEPT !.i = ex.i + 1,
                           !.urls = ex.urls \o out,
                           !.pushed = Append(ex.pushed, out)]
    /\ UNCHANGED <<collVars, valVars, appVars, obsVars>>

(***************************************************************************)
(* Collator.                                                               *)
(***************************************************************************)
\* null, the empty cell (numbers are >= 1)
None == -1

\* Math.ceil(a / b) for integers a >= 0, b >= 1
Ceil(a, b) == (a + b - 1) \div b

numberForCell_ColMajor(p, r, c, R, C, N) ==
    LET S == R * C
        P == Ceil(N, S)
        s == c * R + r
        n == s * P + (p + 1)
    IN  IF n <= N THEN n ELSE None

numberForCell_Strict(p, r, c, R, C, N) ==
    LET S == R * C
        P == Ceil(N, S)
        s == r * C + c
        n == s * P + (p + 1)
    IN  IF n < N THEN n ELSE None

numberForCell_ZeroBased(p, r, c, R, C, N) ==
    LET S == R * C
        P == Ceil(N, S)
        s == r * C + c
        n == s * P + p
    IN  IF n <= N THEN n ELSE None

numberForCell_PageMajor(p, r, c, R, C, N) ==
    LET S == R * C
        s == r * C + c
        n == p * S + (s + 1)
    IN  IF n <= N THEN n ELSE None

numberForCell(p, r, c, R, C, N) ==
    LET S == R * C
        P == Ceil(N, S)
        s == r * C + c
        n == s * P + (p + 1)
    IN  IF n <= N THEN n ELSE None

NoProbe == [asked |-> FALSE, page |-> 0, row |-> 0, col |-> 0, result |-> None]

\* The cells of one print page: rows x columns, each asked of numberForCell.
PrintPage(pageIndex, R, C, N) ==
    [rc \in (0 .. R - 1) \X (0 .. C - 1) |->
        numberForCell(pageIndex, rc[1], rc[2], R, C, N)]

\* Number of pages the print view renders for N records.
PrintPageCount(N, R, C) == IF N > 0 THEN Ceil(N, R * C) ELSE 0

\* the keys of new Map(qrCodes.map(qr => [qr.id, qr]))
qrLookup(q) == {q[i].id : i \in 1 .. Len(q)}

\* what the print view renders in a cell that numberForCell gave cellNumber
printCell(keys, cellNumber) ==
    IF cellNumber = None THEN [number |-> None, shows |-> "empty"]
    ELSE IF cellNumber \notin keys THEN [number |-> cellNumber, shows |-> "No data"]
    ELSE [number |-> cellNumber, shows |-> "record"]

\* the print container of the results view: one grid per page, page 0 first
printView(q) ==
    With(qrLookup(q), LAMBDA keys :
        [pageIndex \in 0 .. PrintPageCount(Len(q), GRID_ROWS, GRID_COLS) - 1 |->
            With(PrintPage(pageIndex, GRID_ROWS, GRID_COLS, Len(q)), LAMBDA page :
                [rc \in DOMAIN page |-> printCell(keys, page[rc])])])

CollIdle == gR = GRID_ROWS /\ gC = GRID_COLS /\ gN = 0 /\ sheet = <<>> /\ probe = NoProbe

\* The print view renders its next page.
RenderPage ==
    /\ Len(sheet) < PrintPageCount(gN, gR, gC)
    /\ sheet' = Append(sheet, PrintPage(Len(sheet), gR, gC, gN))
    /\ UNCHANGED <<gR, gC, gN, probe>>
    /\ UNCHANGED <<valVars, exVars, appVars, obsVars>>

\* One call of numberForCell for an arbitrary cell.
QueryCell ==
    \E p \in 0 .. MaxPage, r \in 0 .. gR - 1, c \in 0 .. gC - 1 :
        /\ probe' = [asked |-> TRUE, page |-> p, row |-> r, col |-> c,
                     result |-> numberForCell(p, r, c, gR, gC, gN)]
        /\ UNCHANGED <<gR, gC, gN, sheet>>
        /\ UNCHANGED <<valVars, exVars, appVars, obsVars>>

(***************************************************************************)
(* The validator functions applied to one input string.                    *)
(***************************************************************************)
UrlPrefixes == {"", " ", "http://", "https://", "HTTPS://", "ftp://", "javascript:", "https:"}
UrlHosts == {"", "a.com", "1.2.3.4", "a b", "a.com:80", "localhost:3000"}
UrlSuffixes == {"", "/../x", " "}

\* n copies of the one-character string c
RECURSIVE Repeat(_, _)
Repeat(c, n) ==
    IF n <= 0 THEN ""
    ELSE IF n = 1 THEN c
    ELSE Repeat(c, n \div 2) \o Repeat(c, n - n \div 2)

\* strings that match several patterns of the table, and strings around the
\* length the long-URL advisory starts at
UrlExtras ==
    { "data:text/html,<script>alert(1)</script>",
      "file:///etc/../passwd",
      "VBScript:msgbox data:",
      "https://a.com/?file:vbscript:",
      "https://a.com/?q=<SCRIPT>..\\x",
      "a.com/..\\x",
      "https://a.com/" \o Repeat("a", 186),
      "https://a.com/" \o Repeat("a", 187),
      "a.com/" \o Repeat("a", 195),
      "1.2.3.4/" \o Repeat("a", 200),
      "a b/" \o Repeat("a", 200),
      "http" \o Repeat("a", 200),
      "<b>a.com</b>",
      "<SCRIPT src=x>alert(1)</ScRiPt>https://a.com",
      "<script>a\nb</script>c",
      "a<>b < c",
      "java<i>script:alert(1)",
      "javajavascript:script:alert(1)",
      "dajavascript:ta:x",
      "vbdata:script:x",
      "https://a.com/?<" \o Repeat("a", 200) \o ">" }

UrlCorpus ==
    {p \o h \o s : p \in UrlPrefixes, h \in UrlHosts, s \in UrlSuffixes} \cup UrlExtras

ValIdle ==
    /\ vIn = ""
    /\ vValid = <<>>
    /\ vNorm = <<>>
    /\ vSusp = <<>>
    /\ vClean = <<>>
    /\ vEscaped = {}

CallIsValidUrl ==
    /\ vValid = <<>>
    /\ IF isValidUrlEscapes(vIn)
       THEN vEscaped' = vEscaped \cup {"isValidUrl"} /\ UNCHANGED vValid
       ELSE vValid' = <<isValidUrl(vIn)>> /\ UNCHANGED vEscaped
    /\ UNCHANGED <<vIn, vNorm, vSusp, vClean>>
    /\ UNCHANGED <<collVars, exVars, appVars, obsVars>>

CallNormalizeUrl ==
    /\ vNorm = <<>>
    /\ vNorm' = <<normalizeUrl(vIn)>>
    /\ UNCHANGED <<vIn, vValid, vSusp, vClean, vEscaped>>
    /\ UNCHANGED <<collVars, exVars, appVars, obsVars>>

CallCheckSuspiciousUrl ==
    /\ vSusp = <<>>
    /\ IF checkSuspiciousUrlEscapes(vIn)
       THEN vEscaped' = vEscaped \cup {"checkSuspiciousUrl"} /\ UNCHANGED vSusp
       ELSE vSusp' = <<checkSuspiciousUrl(vIn)>> /\ UNCHANGED vEscaped
    /\ UNCHANGED <<vIn, vValid, vNorm, vClean>>
    /\ UNCHANGED <<collVars, exVars, appVars, obsVars>>

CallSanitizeUrlForDisplay ==
    /\ vClean = <<>>
    /\ IF sanitizeUrlForDisplayEscapes(vIn)
       THEN vEscaped' = vEscaped \cup {"sanitizeUrlForDisplay"} /\ UNCHANGED vClean
       ELSE vClean' = <<sanitizeUrlForDisplay(vIn)>> /\ UNCHANGED vEscaped
    /\ UNCHANGED <<vIn, vValid, vNorm, vSusp>>
    /\ UNCHANGED <<collVars, exVars, appVars, obsVars>>

(***************************************************************************)
(* The page component QRCodeGeneratorContent: state and handlers.          *)
(***************************************************************************)
showToast(ts, message, type) == Append(ts, [message |-> message, type |-> type])

\* links.split('\n').map(link => link.trim()).filter(link => link.length > 0)
nonEmpty(s) == Len(s) > 0

linkListOf(text) ==
    LET lines == splitLines(text)
    IN  SelectSeq([i \in 1 .. Len(lines) |-> trim(lines[i])], nonEmpty)

limitMessage(n) ==
    "Processing first " \o toDigits(MAX_QR_CODES) \o " of " \o toDigits(n)
        \o " URLs (maximum limit)."

invalidCountOf(data) == Cardinality({i \in 1 .. Len(data) : ~ data[i].isValid})
warningCountOf(data) == Cardinality({i \in 1 .. Len(data) : data[i].hasWarning})

\* limitedList.map(...) of generateQRCodes
generateRecords_DropInvalid(limitedList) ==
    LET kept == SelectSeq(limitedList, isValidUrl)
    IN  [i \in 1 .. Len(kept) |-> qrRecord(kept[i], i - 1)]

generateRecords_Stateful(limitedList) ==
    [i \in 1 .. Len(limitedList) |-> qrRecord(limitedList[i], i - 1 + Len(toasts))]

generateRecords(limitedList) ==
    [i \in 1 .. Len(limitedList) |-> qrRecord(limitedList[i], i - 1)]

\* linkList.map(...) of the deferred batch of handleFileUpload
batchRecords(linkList) ==
    [i \in 1 .. Len(linkList) |-> qrRecord(linkList[i], i - 1)]

generateSummary_Both(ts, data) ==
    With(IF invalidCountOf(data) > 0
         THEN showToast(ts, "Generated " \o toDigits(Len(data)) \o " QR codes with "
                             \o toDigits(invalidCountOf(data))
                             \o " invalid URL(s). Invalid URLs will be marked.", "warning")
         ELSE ts, LAMBDA t1 :
        IF warningCountOf(data) > 0
        THEN showToast(t1, "Generated " \o toDigits(Len(data)) \o " QR codes with "
                            \o toDigits(warningCountOf(data))
                            \o " warning(s). Please review flagged URLs.", "info")
        ELSE t1)

generateSummary(ts, data) ==
    IF invalidCountOf(data) > 0
    THEN showToast(ts, "Generated " \o toDigits(Len(data)) \o " QR codes with "
                        \o toDigits(invalidCountOf(data))
                        \o " invalid URL(s). Invalid URLs will be marked.", "warning")
    ELSE IF warningCountOf(data) > 0
    THEN showToast(ts, "Generated " \o toDigits(Len(data)) \o " QR codes with "
                        \o toDigits(warningCountOf(data))
                        \o " warning(s). Please review flagged URLs.", "info")
    ELSE ts

batchSummary(ts, data) ==
    IF invalidCountOf(data) > 0
    THEN showToast(ts, "Processed " \o toDigits(Len(data)) \o " URLs from CSV. "
                        \o toDigits(invalidCountOf(data)) \o " invalid URL(s) found.",
                   "warning")
    ELSE IF warningCountOf(data) > 0
    THEN showToast(ts, "Processed " \o toDigits(Len(data)) \o " URLs with "
                        \o toDigits(warningCountOf(data)) \o " warning(s).", "info")
    ELSE ts

\* (file.size / (1024 * 1024)).toFixed(2)
fileSizeMB(size) ==
    LET h == (size * 100 + 524288) \div 1048576
    IN  toDigits(h \div 100) \o "." \o toDigits((h \div 10) % 10) \o toDigits(h % 10)

validMimeTypes == {"text/csv", "text/plain", "application/csv"}

NoFile == [name |-> "", type |-> "", size |-> 0, readable |-> TRUE, text |-> ""]
UploadIdle == [pc |-> "idle", file |-> NoFile, urls |-> <<>>]

\* which view the screen shows
Screen == IF Len(qrCodes) > 0 THEN "results" ELSE currentView

NoMemo == [set |-> FALSE, input |-> <<>>, records |-> <<>>]
ObsIdle == memo = NoMemo

AppIdle ==
    /\ links = ""
    /\ qrCodes = <<>>
    /\ currentView = "options"
    /\ toasts = <<>>
    /\ isProcessing = FALSE
    /\ upload = UploadIdle
    /\ lastRun = <<>>

\* the two buttons of the options view
ChooseView ==
    /\ Screen = "options"
    /\ \E v \in {"upload", "manual"} : currentView' = v
    /\ UNCHANGED <<links, qrCodes, toasts, isProcessing, upload, lastRun>>
    /\ UNCHANGED <<collVars, valVars, exVars, obsVars>>

\* the textarea's onChange
SetLinks(T) ==
    /\ Screen = "manual"
    /\ \E text \in T : links' = text
    /\ UNCHANGED <<qrCodes, currentView, toasts, isProcessing, upload, lastRun>>
    /\ UNCHANGED <<collVars, valVars, exVars, obsVars>>

generateQRCodes ==
    /\ \E linkList \in {linkListOf(links)} :
          IF Len(linkList) = 0
          THEN /\ toasts' = showToast(toasts, "Please enter at least one URL", "error")
               /\ isProcessing' = FALSE
               /\ UNCHANGED <<qrCodes, lastRun>>
          ELSE \E qrCodeData \in {generateRecords(slice0(linkList, MAX_QR_CODES))} :
                  /\ qrCodes' = qrCodeData
                  /\ toasts' = generateSummary(
                                   IF Len(linkList) > MAX_QR_CODES
                                   THEN showToast(toasts, limitMessage(Len(linkList)),
                                                  "warning")
                                   ELSE toasts,
                                   qrCodeData)
                  /\ isProcessing' = FALSE
                  /\ lastRun' = linkList
    /\ Len(toasts') <= MaxToasts
    /\ UNCHANGED <<links, currentView, upload>>
    /\ UNCHANGED <<collVars, valVars, exVars, obsVars>>

\* the Generate button of the manual view: disabled={!links.trim() || isProcessing}
ClickGenerate ==
    /\ Screen = "manual"
    /\ ~ isProcessing
    /\ trim(links) # ""
    /\ generateQRCodes

clearAll ==
    /\ Screen = "results"
    /\ links' = ""
    /\ qrCodes' = <<>>
    /\ lastRun' = <<>>
    /\ UNCHANGED <<currentView, toasts, isProcessing, upload>>
    /\ UNCHANGED <<collVars, valVars, exVars, obsVars>>

goBack ==
    /\ Screen \in {"upload", "manual", "results"}
    /\ qrCodes' = <<>>
    /\ currentView' = "options"
    /\ links' = ""
    /\ lastRun' = <<>>
    /\ UNCHANGED <<toasts, isProcessing, upload>>
    /\ UNCHANGED <<collVars, valVars, exVars, obsVars>>

\* handleFileUpload up to its await of file.text()
StartUpload_StaysProcessing(file) ==
    /\ IF file.size > MAX_FILE_SIZE
       THEN /\ toasts' = showToast(toasts,
                    "File size (" \o fileSizeMB(file.size)
                        \o "MB) exceeds maximum allowed size of 5MB. Please use a smaller file.",
                    "error")
            /\ isProcessing' = TRUE
            /\ UNCHANGED upload
       ELSE IF file.type \notin validMimeTypes /\ ~ endsWith(file.name, ".csv")
       THEN /\ toasts' = showToast(toasts,
                    "Invalid file type. Please upload a valid CSV file (.csv extension, text/csv MIME type).",
                    "error")
            /\ isProcessing' = TRUE
            /\ UNCHANGED upload
       ELSE /\ isProcessing' = TRUE
            /\ upload' = [pc |-> "reading", file |-> file, urls |-> <<>>]
            /\ UNCHANGED toasts
    /\ Len(toasts') <= MaxToasts
    /\ UNCHANGED <<links, qrCodes, currentView, lastRun>>
    /\ UNCHANGED <<collVars, valVars, exVars, obsVars>>

StartUpload(file) ==
    /\ IF file.size > MAX_FILE_SIZE
       THEN /\ toasts' = showToast(toasts,
                    "File size (" \o fileSizeMB(file.size)
                        \o "MB) exceeds maximum allowed size of 5MB. Please use a smaller file.",
                    "error")
            /\ isProcessing' = FALSE
            /\ UNCHANGED upload
       ELSE IF file.type \notin validMimeTypes /\ ~ endsWith(file.name, ".csv")
       THEN /\ toasts' = showToast(toasts,
                    "Invalid file type. Please upload a valid CSV file (.csv extension, text/csv MIME type).",
                    "error")
            /\ isProcessing' = FALSE
            /\ UNCHANGED upload
       ELSE /\ isProcessing' = TRUE
            /\ upload' = [pc |-> "reading", file |-> file, urls |-> <<>>]
            /\ UNCHANGED toasts
    /\ Len(toasts') <= MaxToasts
    /\ UNCHANGED <<links, qrCodes, currentView, lastRun>>
    /\ UNCHANGED <<collVars, valVars, exVars, obsVars>>

\* the file picker's onChange
handleFileChange(F) ==
    /\ Screen = "upload"
    /\ ~ isProcessing
    /\ \E file \in F : StartUpload(file)

\* the drop zone's onDrop
handleDrop(F) ==
    /\ Screen = "upload"
    /\ ~ isProcessing
    /\ \E file \in F :
          IF file.type = "text/csv" \/ endsWith(file.name, ".csv")
          THEN StartUpload(file)
          ELSE /\ toasts' = showToast(toasts,
                       "Invalid file type. Please upload a CSV file (.csv extension).",
                       "error")
               /\ Len(toasts') <= MaxToasts
               /\ UNCHANGED <<links, qrCodes, currentView, isProcessing, upload, lastRun>>
               /\ UNCHANGED <<collVars, valVars, exVars, obsVars>>

\* the warning for a file of more than MAX_QR_CODES + 10 lines
lineCountWarning(ts, lineCount) ==
    IF lineCount > MAX_QR_CODES + 10
    THEN showToast(ts, "File contains " \o toDigits(lineCount) \o " lines. Maximum "
                        \o toDigits(MAX_QR_CODES) \o " QR codes will be generated.",
                   "warning")
    ELSE ts

\* handleFileUpload from the end of file.text() to the end of Papa's complete callback
FileTextDone_StaysProcessing ==
    /\ upload.pc = "reading"
    /\ IF ~ upload.file.readable
       THEN /\ toasts' = showToast(toasts,
                    "Failed to read file. Please try again with a different file.",
                    "error")
            /\ isProcessing' = FALSE
            /\ upload' = UploadIdle
            /\ UNCHANGED links
       ELSE \E t1 \in {lineCountWarning(toasts, Len(splitLines(upload.file.text)))},
               urls \in {extractUrls(PapaParse(upload.file.text))} :
               IF Len(urls) = 0
               THEN /\ toasts' = showToast(t1,
                            "No valid URLs found in the CSV file. Please ensure URLs are in the first column.",
                            "error")
                    /\ isProcessing' = TRUE
                    /\ upload' = UploadIdle
                    /\ UNCHANGED links
               ELSE /\ toasts' = IF Len(urls) > MAX_QR_CODES
                                 THEN showToast(t1, limitMessage(Len(urls)), "warning")
                                 ELSE t1
                    /\ links' = joinLines(slice0(urls, MAX_QR_CODES))
                    /\ upload' = [pc |-> "timer", file |-> upload.file, urls |-> urls]
                    /\ UNCHANGED isProcessing
    /\ Len(toasts') <= MaxToasts
    /\ UNCHANGED <<qrCodes, currentView, lastRun>>
    /\ UNCHANGED <<collVars, valVars, exVars, obsVars>>

FileTextDone ==
    /\ upload.pc = "reading"
    /\ IF ~ upload.file.readable
       THEN /\ toasts' = showToast(toasts,
                    "Failed to read file. Please try again with a different file.",
                    "error")
            /\ isProcessing' = FALSE
            /\ upload' = UploadIdle
            /\ UNCHANGED links
       ELSE \E t1 \in {lineCountWarning(toasts, Len(splitLines(upload.file.text)))},
               urls \in {extractUrls(PapaParse(upload.file.text))} :
               IF Len(urls) = 0
               THEN /\ toasts' = showToast(t1,
                            "No valid URLs found in the CSV file. Please ensure URLs are in the first column.",
                            "error")
                    /\ isProcessing' = FALSE
                    /\ upload' = UploadIdle
                    /\ UNCHANGED links
               ELSE /\ toasts' = IF Len(urls) > MAX_QR_CODES
                                 THEN showToast(t1, limitMessage(Len(urls)), "warning")
                                 ELSE t1
                    /\ links' = joinLines(slice0(urls, MAX_QR_CODES))
                    /\ upload' = [pc |-> "timer", file |-> upload.file, urls |-> urls]
                    /\ UNCHANGED isProcessing
    /\ Len(toasts') <= MaxToasts
    /\ UNCHANGED <<qrCodes, currentView, lastRun>>
    /\ UNCHANGED <<collVars, valVars, exVars, obsVars>>

DeferredBatch_StaysProcessing ==
    /\ upload.pc = "timer"
    /\ \E qrCodeData \in {batchRecords(slice0(upload.urls, MAX_QR_CODES))} :
          /\ qrCodes' = qrCodeData
          /\ isProcessing' = TRUE
          /\ toasts' = batchSummary(toasts, qrCodeData)
    /\ Len(toasts') <= MaxToasts
    /\ lastRun' = upload.urls
    /\ upload' = UploadIdle
    /\ UNCHANGED <<links, currentView>>
    /\ UNCHANGED <<collVars, valVars, exVars, obsVars>>

\* the setTimeout(..., 100) callback of handleFileUpload
DeferredBatch ==
    /\ upload.pc = "timer"
    /\ \E qrCodeData \in {batchRecords(slice0(upload.urls, MAX_QR_CODES))} :
          /\ qrCodes' = qrCodeData
          /\ isProcessing' = FALSE
          /\ toasts' = batchSummary(toasts, qrCodeData)
    /\ Len(toasts') <= MaxToasts
    /\ lastRun' = upload.urls
    /\ upload' = UploadIdle
    /\ UNCHANGED <<links, currentView>>
    /\ UNCHANGED <<collVars, valVars, exVars, obsVars>>

\* a toast's close button or its 5 s timer
removeToast ==
    /\ \E i \in 1 .. Len(toasts) :
          toasts' = SubSeq(toasts, 1, i - 1) \o SubSeq(toasts, i + 1, Len(toasts))
    /\ UNCHANGED <<links, qrCodes, currentView, isProcessing, upload, lastRun>>
    /\ UNCHANGED <<collVars, valVars, exVars, obsVars>>

\* An observer, not a step of the page: it keeps the input and the records of
\* the run whose records are on screen, once, to compare a later run with.
Remember ==
    /\ ~ memo.set
    /\ qrCodes # <<>>
    /\ memo' = [set |-> TRUE, input |-> lastRun, records |-> qrCodes]
    /\ UNCHANGED <<collVars, valVars, exVars, appVars>>

(***************************************************************************)
(* Inputs of the model: what the user types and which files are offered.   *)
(***************************************************************************)
LineCorpus ==
    {"https://a.com", "b.com", "not a url", "javascript:alert(1)", "", " 1.2.3.4 "}

Texts ==
    {joinLines(q) : q \in UNION {[1 .. n -> LineCorpus] : n \in 0 .. MaxLines}}

CsvFile(name, type, text) ==
    [name |-> name, type |-> type, size |-> Len(text), readable |-> TRUE, text |-> text]

Files ==
    { CsvFile("codes.csv", "text/csv", "url\nhttps://a.com\nreferral?code=A1\n"),
      CsvFile("list.txt", "text/plain", "b.com\nnot a url\n"),
      CsvFile("mixed.csv", "", "id,link\n7,javascript:alert(1)\n, x\n\"a.com\nb.com\",z"),
      CsvFile("header.csv", "application/csv", "URL\n\n"),
      CsvFile("image.png", "image/png", "b.com"),
      [name |-> "huge.csv", type |-> "text/csv", size |-> 6 * 1024 * 1024,
       readable |-> TRUE, text |-> ""],
      [name |-> "gone.csv", type |-> "text/csv", size |-> 6, readable |-> FALSE,
       text |-> ""] }

\* more lines than MAX_QR_CODES
BigLines ==
    [i \in 1 .. MAX_QR_CODES + 1 |->
        IF i = 2 THEN "not a url"
        ELSE IF i = 3 THEN "javascript:alert(1)"
        ELSE "a.b/" \o toDigits(i)]
BigText == joinLines(BigLines)

CapTexts == {BigText, " \n"}

\* a CSV of more than MAX_QR_CODES + 10 lines
ManyLines == [i \in 1 .. MAX_QR_CODES + 11 |-> "a.b/" \o toDigits(i)]

CapFiles ==
    { CsvFile("codes.csv", "text/csv", "url\nhttps://a.com\nnot a url\n../x\n"),
      CsvFile("many.csv", "text/csv", joinLines(ManyLines)) }

(***************************************************************************)
(* Specifications.  The collator and the validator are checked on their    *)
(* own inputs while the page is idle; the page is checked with the print   *)
(* probe and the validator probe idle.                                     *)
(***************************************************************************)
CollInit ==
    /\ gR \in 1 .. MaxR
    /\ gC \in 1 .. MaxC
    /\ gN \in 0 .. MaxN
    /\ sheet = <<>>
    /\ probe = NoProbe
    /\ ValIdle
    /\ ExIdle
    /\ AppIdle
    /\ ObsIdle

CollNext == RenderPage \/ QueryCell

SpecCollator == CollInit /\ [][CollNext]_vars

ValInit ==
    /\ vIn \in UrlCorpus
    /\ vValid = <<>>
    /\ vNorm = <<>>
    /\ vSusp = <<>>
    /\ vClean = <<>>
    /\ vEscaped = {}
    /\ CollIdle
    /\ ExIdle
    /\ AppIdle
    /\ ObsIdle

ValNext ==
    \/ CallIsValidUrl
    \/ CallNormalizeUrl
    \/ CallCheckSuspiciousUrl
    \/ CallSanitizeUrlForDisplay

SpecValidator == ValInit /\ [][ValNext]_vars

\* the lines of the CSV texts handed to the extractor
CsvLines ==
    { "url", "https://a.com", "x,Referral?code=A1", "b.com, referral?c=2",
      " REFERRAL/z ", " ", ",x", "referral?a,referral?b", " http://d.com ,y", "" }

CsvTexts == {joinLines(q) : q \in UNION {[1 .. n -> CsvLines] : n \in 1 .. MaxRows}}

ExInit ==
    /\ \E text \in CsvTexts :
          ex = [pc |-> "parse", text |-> text, data |-> <<>>, i |-> 0, urls |-> <<>>,
                pushed |-> <<>>]
    /\ CollIdle
    /\ ValIdle
    /\ AppIdle
    /\ ObsIdle

ExNext == ParseCsv \/ LoopRow

SpecExtractor == ExInit /\ [][ExNext]_vars

Init == AppIdle /\ CollIdle /\ ValIdle /\ ExIdle /\ ObsIdle

Next ==
    \/ ChooseView
    \/ SetLinks(Texts)
    \/ ClickGenerate
    \/ clearAll
    \/ goBack
    \/ handleFileChange(Files)
    \/ handleDrop(Files)
    \/ FileTextDone
    \/ DeferredBatch
    \/ removeToast

Spec == Init /\ [][Next]_vars

CapNext ==
    \/ ChooseView
    \/ SetLinks(CapTexts)
    \/ ClickGenerate
    \/ clearAll
    \/ goBack
    \/ handleFileChange(CapFiles)
    \/ handleDrop(CapFiles)
    \/ FileTextDone
    \/ DeferredBatch
    \/ removeToast

SpecCap == Init /\ [][CapNext]_vars

\* two inputs, each offered by hand and by file, and one earlier run remembered
RerunTexts == {"b.com\njavascript:alert(1)", "https://a.com\n 1.2.3.4 "}
RerunFiles ==
    { CsvFile("codes.csv", "text/csv", "b.com\njavascript:alert(1)\n"),
      CsvFile("list.txt", "text/plain", "https://a.com\n 1.2.3.4 \n") }

RerunNext ==
    \/ ChooseView
    \/ SetLinks(RerunTexts)
    \/ ClickGenerate
    \/ clearAll
    \/ goBack
    \/ handleFileChange(RerunFiles)
    \/ handleDrop(RerunFiles)
    \/ FileTextDone
    \/ DeferredBatch
    \/ removeToast
    \/ Remember

SpecRerun == Init /\ [][RerunNext]_vars

\* The page with its pending work scheduled fairly: a file read settles, the
\* 100 ms timer fires, and a toast leaves the screen after its 5 s.
LiveTexts == {"b.com", "not a url\n 1.2.3.4 "}

LiveNext ==
    \/ ChooseView
    \/ SetLinks(LiveTexts)
    \/ ClickGenerate
    \/ clearAll
    \/ goBack
    \/ handleFileChange(Files)
    \/ handleDrop(Files)
    \/ FileTextDone
    \/ DeferredBatch
    \/ removeToast

\* what the complete callback extracts from each file
CandidatesOf == [f \in Files |-> extractUrls(PapaParse(f.text))]

\* The two pending steps of an upload, told by what they do to its position:
\* file.text() settles and the parser calls back (FileTextDone), and the
\* timer fires (DeferredBatch).  No other step changes upload in this way.
ReadSettles ==
    /\ upload.pc = "reading"
    /\ upload' \in {UploadIdle,
                    [pc |-> "timer", file |-> upload.file,
                     urls |-> CandidatesOf[upload.file]]}

TimerFires == upload.pc = "timer" /\ upload' = UploadIdle

SpecLive ==
    /\ Init
    /\ [][LiveNext]_vars
    /\ WF_upload(ReadSettles)
    /\ WF_upload(TimerFires)
    /\ WF_vars(removeToast)

(***************************************************************************)
(* Claims about the collator, checked under SpecCollator.                  *)
(***************************************************************************)
CellsPerPage == gR * gC

\* P = ceil(N / S) stated as the least p with p * S >= N
PagesNeeded ==
    CHOOSE p \in 0 .. gN :
        /\ p * CellsPerPage >= gN
        /\ \A q \in 0 .. gN : q * CellsPerPage >= gN => p <= q

SheetComplete == gN >= 1 /\ Len(sheet) = PagesNeeded

Slots == 0 .. CellsPerPage - 1

\* what page pg (0-based) holds in row-major slot s
CellAt(pg, s) == sheet[pg + 1][<<s \div gC, s % gC>>]

IsNumber(v) == v # None

\* the stack of slot s: its non-none values in page order
StackOf(s) == SelectSeq([pg \in 1 .. Len(sheet) |-> CellAt(pg - 1, s)], IsNumber)

RECURSIVE ConcatStacks(_)
ConcatStacks(k) == IF k = 0 THEN <<>> ELSE ConcatStacks(k - 1) \o StackOf(k - 1)

\* C1: once every page is rendered (N >= 1), each slot's non-none values over
\* pages 0..P-1 are consecutive ascending integers, and the stacks concatenated
\* in row-major slot order are exactly 1, 2, ..., N.
C1_CutAndStack ==
    SheetComplete =>
        /\ \A s \in Slots :
              \A i \in 1 .. Len(StackOf(s)) - 1 : StackOf(s)[i + 1] = StackOf(s)[i] + 1
        /\ ConcatStacks(CellsPerPage) = [i \in 1 .. gN |-> i]

C1_Witness ==
    /\ SheetComplete /\ gR = 3 /\ gC = 3 /\ gN = 10 /\ Len(sheet) = 2
    /\ StackOf(4) = <<9, 10>> /\ StackOf(5) = <<>>

\* C2: numberForCell(page,row,col,R,C,N) is n = slot*P + page + 1 with
\* slot = row*C + col and P = ceil(N/(R*C)) when n <= N, and none when n > N.
C2_Formula ==
    probe.asked =>
        LET slot == probe.row * gC + probe.col
            n == slot * PagesNeeded + probe.page + 1
        IN  /\ n <= gN => probe.result = n
            /\ n > gN => probe.result = None

C2_Witness ==
    /\ probe.asked /\ gR = 3 /\ gC = 3 /\ gN = 10
    /\ probe.page = 1 /\ probe.row = 0 /\ probe.col = 0 /\ probe.result = 2

\* C3 as stated: none is returned only on the last page and only when N is not
\* a multiple of S; every page before the last is full.
C3_AsStated ==
    SheetComplete =>
        \A pg \in 0 .. Len(sheet) - 1 : \A s \in Slots :
            CellAt(pg, s) = None => (pg = Len(sheet) - 1 /\ gN % CellsPerPage # 0)

\* C3 (amended): over pages 0..P-1 none is returned only when N is not a
\* multiple of S, and a slot that is empty on some page is also empty on the
\* last page; pages before the last may hold empty cells.
C3_Amended ==
    SheetComplete =>
        \A pg \in 0 .. Len(sheet) - 1 : \A s \in Slots :
            CellAt(pg, s) = None =>
                (gN % CellsPerPage # 0 /\ CellAt(Len(sheet) - 1, s) = None)

C3_Witness ==
    /\ SheetComplete /\ gR = 3 /\ gC = 3 /\ gN = 10
    /\ CellAt(0, 5) = None /\ CellAt(1, 5) = None /\ CellAt(0, 4) = 9

NoneOnPage(pg) == Cardinality({s \in Slots : CellAt(pg, s) = None})

RECURSIVE NoneUpTo(_)
NoneUpTo(k) == IF k = 0 THEN 0 ELSE NoneUpTo(k - 1) + NoneOnPage(k - 1)

\* C4 as stated: when N is not a multiple of S, exactly S - (N mod S) cells of
\* the final page are none.
C4_AsStated ==
    (SheetComplete /\ gN % CellsPerPage # 0) =>
        NoneOnPage(Len(sheet) - 1) = CellsPerPage - (gN % CellsPerPage)

\* C4 (amended): when N is not a multiple of S, exactly S - (N mod S) cells over
\* all P pages together are none.
C4_Amended ==
    (SheetComplete /\ gN % CellsPerPage # 0) =>
        NoneUpTo(Len(sheet)) = CellsPerPage - (gN % CellsPerPage)

C4_Witness ==
    /\ SheetComplete /\ gR = 3 /\ gC = 3 /\ gN = 10
    /\ NoneOnPage(0) = 4 /\ NoneOnPage(1) = 4 /\ NoneUpTo(2) = 8

\* C5 as stated: on the final page, if slot s is none then every slot with a
\* lower row-major index is none.
C5_AsStated ==
    (SheetComplete /\ gN % CellsPerPage # 0) =>
        \A s \in Slots : CellAt(Len(sheet) - 1, s) = None =>
            \A t \in Slots : t < s => CellAt(Len(sheet) - 1, t) = None

\* C5 (amended): on the final page, if slot s is none then every slot with a
\* higher row-major index is none (the highest-indexed slots are the empty ones).
C5_Amended ==
    (SheetComplete /\ gN % CellsPerPage # 0) =>
        \A s \in Slots : CellAt(Len(sheet) - 1, s) = None =>
            \A t \in Slots : t > s => CellAt(Len(sheet) - 1, t) = None

C5_Witness ==
    /\ SheetComplete /\ gR = 2 /\ gC = 3 /\ gN = 7
    /\ CellAt(1, 2) = 6 /\ CellAt(1, 3) = None /\ CellAt(1, 5) = None

\* C6: with N = 0 every queried cell is none and the print view renders no
\* page; with N = 1 exactly one page is rendered, cell (0,0) of page 0 is 1 and
\* every other cell (of any page) is none.
C6_Boundary ==
    /\ gN = 0 =>
          /\ sheet = <<>> /\ ~ ENABLED RenderPage
          /\ probe.asked => probe.result = None
    /\ gN = 1 =>
          /\ Len(sheet) <= 1
          /\ Len(sheet) = 0 => ENABLED RenderPage
          /\ Len(sheet) = 1 =>
                /\ ~ ENABLED RenderPage
                /\ \A s \in Slots : CellAt(0, s) = IF s = 0 THEN 1 ELSE None
          /\ probe.asked =>
                probe.result =
                    IF probe.page = 0 /\ probe.row = 0 /\ probe.col = 0 THEN 1 ELSE None

C6_Witness ==
    /\ gN = 1 /\ gR = 3 /\ gC = 3 /\ Len(sheet) = 1
    /\ CellAt(0, 0) = 1 /\ CellAt(0, 8) = None
    /\ probe.asked /\ probe.page = 1 /\ probe.result = None

(***************************************************************************)
(* Claims about the validator, checked under SpecValidator.                *)
(***************************************************************************)
IsBlank(s) == \A i \in 1 .. Len(s) : Char(s, i) \in WhiteSpace

ParsesAsHttp(s) == URLParse(s).ok /\ URLParse(s).protocol \in {"http:", "https:"}

\* C10: isValidUrl(s) is false for an empty or whitespace-only s; otherwise it
\* is true exactly when s parses directly with scheme http or https, or s does
\* not parse directly and "https://" + s parses; an s that parses directly with
\* another scheme is rejected without a retry.
C10_IsValidUrl ==
    vValid # <<>> =>
        vValid[1] =
            IF IsBlank(vIn) THEN FALSE
            ELSE \/ ParsesAsHttp(vIn)
                 \/ ~ URLParse(vIn).ok /\ URLParse("https://" \o vIn).ok

C10_Witness ==
    /\ vValid = <<FALSE>>
    /\ ~ IsBlank(vIn)
    /\ URLParse(vIn).ok
    /\ URLParse(vIn).protocol = "ftp:"
    /\ URLParse("https://" \o vIn).ok

\* C11: normalizeUrl(s) is s itself when s begins with "http://" or "https://"
\* (in lower case), and "https://" followed by s otherwise; normalizing the
\* result again changes nothing.
C11_Normalize ==
    vNorm # <<>> =>
        /\ vNorm[1] = IF startsWith(vIn, "http://") \/ startsWith(vIn, "https://")
                      THEN vIn
                      ELSE "https://" \o vIn
        /\ normalizeUrl(vNorm[1]) = vNorm[1]

C11_Witness ==
    /\ vIn = "HTTPS://a.com"
    /\ vNorm = <<"https://HTTPS://a.com">>

\* the six patterns of the advisory table, in the order of the table
MatchesPattern(k, s) ==
    CASE k = 1 -> includes(toLowerCase(s), "javascript:")
      [] k = 2 -> includes(toLowerCase(s), "data:")
      [] k = 3 -> includes(toLowerCase(s), "file:")
      [] k = 4 -> includes(toLowerCase(s), "vbscript:")
      [] k = 5 -> includes(toLowerCase(s), "<script")
      [] k = 6 -> includes(s, "../") \/ includes(s, "..\\")

PatternMessage(k) ==
    CASE k = 1 -> "JavaScript URLs are not allowed"
      [] k = 2 -> "Data URLs are not allowed"
      [] k = 3 -> "File URLs are not allowed"
      [] k = 4 -> "VBScript URLs are not allowed"
      [] k = 5 -> "Script tags detected in URL"
      [] k = 6 -> "Path traversal detected"

\* C12: when a string matches a pattern of the table, checkSuspiciousUrl
\* returns hasWarning = true with the message of the first pattern, in table
\* order, that matches: one message, and never the IP or length advisory.
C12_FirstMatch ==
    vSusp # <<>> =>
        \A k \in 1 .. 6 :
            MatchesPattern(k, vIn) /\ (\A j \in 1 .. k - 1 : ~ MatchesPattern(j, vIn))
                => vSusp[1] = [hasWarning |-> TRUE, message |-> PatternMessage(k)]

C12_Witness ==
    /\ vIn = "VBScript:msgbox data:"
    /\ vSusp = <<[hasWarning |-> TRUE, message |-> "Data URLs are not allowed"]>>

\* four groups of one to three digits separated by dots
DottedQuad(h) ==
    LET dots == {i \in 1 .. Len(h) : Char(h, i) = "."}
        ends == dots \cup {0, Len(h) + 1}
    IN  /\ Cardinality(dots) = 3
        /\ \A i \in 1 .. Len(h) : i \notin dots => Char(h, i) \in Digits
        /\ \A i \in ends \ {Len(h) + 1} :
              MinOf({j \in ends : j > i}) - i - 1 \in 1 .. 3

\* the string the advisory parses: s as given when it begins with "http",
\* a bare s with "https://" put in front
AdvisoryText(s) == IF startsWith(s, "http") THEN s ELSE "https://" \o s

NoAdvisory == [hasWarning |-> FALSE, message |-> Undefined]

TagLike(t) ==
    \E i \in 1 .. Len(t) : \E j \in i + 2 .. Len(t) : Char(t, i) = "<" /\ Char(t, j) = ">"

SchemeTokens == {"javascript:", "data:", "vbscript:"}

\* C14: the result of sanitizeUrlForDisplay holds no tag-like substring <...>
\* and no occurrence, in any letter case, of javascript:, data: or vbscript:.
C14_AsStated ==
    vClean # <<>> =>
        /\ ~ TagLike(vClean[1])
        /\ \A token \in SchemeTokens : ~ includes(toLowerCase(vClean[1]), token)

\* C19: isValidUrl, checkSuspiciousUrl and sanitizeUrlForDisplay return a
\* value for every string and let no exception out: when the string does not
\* parse, isValidUrl returns false and checkSuspiciousUrl (no pattern matching)
\* returns hasWarning = false; sanitizeUrlForDisplay returns a string.
C19_NoEscape ==
    /\ vEscaped = {}
    /\ vValid # <<>> =>
          /\ vValid[1] \in BOOLEAN
          /\ ~ URLParse(vIn).ok /\ ~ URLParse("https://" \o vIn).ok => vValid[1] = FALSE
    /\ vSusp # <<>> =>
          /\ vSusp[1].hasWarning \in BOOLEAN
          /\ (\A k \in 1 .. 6 : ~ MatchesPattern(k, vIn))
                /\ ~ URLParse(AdvisoryText(vIn)).ok => vSusp[1] = NoAdvisory
    /\ vClean # <<>> => vClean[1] \in STRING

C19_Witness ==
    /\ vIn = "a b"
    /\ vValid = <<FALSE>>
    /\ vSusp = <<NoAdvisory>>
    /\ vClean = <<"a b">>
    /\ vEscaped = {}

(***************************************************************************)
(* Claims about the CSV extractor, checked under SpecExtractor.            *)
(***************************************************************************)
\* the rows the loop has gone through, numbered from 1
RowsDone == 1 .. Len(ex.pushed)

ExDone == ex.pc = "loop" /\ ex.i = Len(ex.data)

\* row number k (from 1) is the header: row index 0 with 'url' in its first cell
IsHeader(k) == k = 1 /\ includes(toLowerCase(ex.data[k][1]), "url")

\* C15: a row is skipped as a header, and pushes no candidate, exactly when
\* its index is 0 and its first cell, in lower case, contains "url"; a later
\* row with "url" in its first cell is treated as data and pushes a candidate.
C15_HeaderSkip ==
    \A k \in RowsDone :
        /\ IsHeader(k) => ex.pushed[k] = <<>>
        /\ k > 1 /\ includes(toLowerCase(ex.data[k][1]), "url") => Len(ex.pushed[k]) = 1
        /\ k = 1 /\ ~ IsHeader(k) /\ trim(ex.data[k][1]) # "" => Len(ex.pushed[k]) = 1

C15_Witness ==
    /\ ExDone
    /\ Len(ex.data) = 2
    /\ ex.data[1] = <<"url">>
    /\ ex.data[2] = <<"url">>
    /\ ex.urls = <<"url">>

\* the cells of row k whose trimmed, lowercased text begins with "referral"
ReferralCells(k) ==
    {j \in 1 .. Len(ex.data[k]) : startsWith(toLowerCase(trim(ex.data[k][j])), "referral")}

\* C16: a row that is not the header and has a cell whose trimmed, lowercased
\* text begins with "referral" pushes CURSOR_BASE_URL followed by the trimmed
\* text of the leftmost such cell, whatever its column and the white space
\* around it, and nothing else.
C16_AsStated ==
    \A k \in RowsDone :
        ~ IsHeader(k) /\ ReferralCells(k) # {} =>
            ex.pushed[k] =
                << "https://cursor.com/" \o trim(ex.data[k][MinOf(ReferralCells(k))]) >>

\* what the first cell of row k gives when no referral cell is found
FirstCellCandidate(k) ==
    LET text == trim(ex.data[k][1])
    IN  IF startsWith(text, "http://") \/ startsWith(text, "https://") THEN text
        ELSE IF startsWith(toLowerCase(text), "referral") THEN "https://cursor.com/" \o text
        ELSE text

\* C17: when the scan finds no referral cell in a row that is not the header,
\* the candidate comes from the first cell only: its text when it begins
\* http:// or https://, the base URL followed by it when it begins "referral"
\* in any case, its trimmed text otherwise; a first cell in an unrecognised
\* format is pushed, and no other cell ever becomes the candidate.
C17_FirstCell ==
    \A k \in RowsDone :
        ~ IsHeader(k)
          /\ (\A j \in 1 .. Len(ex.data[k]) :
                 ~ startsWith(toLowerCase(ex.data[k][j]), "referral")) =>
            /\ ex.pushed[k] \in {<<>>, <<FirstCellCandidate(k)>>}
            /\ trim(ex.data[k][1]) # "" => ex.pushed[k] = <<FirstCellCandidate(k)>>

C17_Witness ==
    /\ ExDone
    /\ ex.data = << <<" REFERRAL/z ">>, <<" http://d.com ", "y">>, <<"b.com", " referral?c=2">> >>
    /\ ex.urls = <<"https://cursor.com/REFERRAL/z", "http://d.com", "b.com">>

\* C18 as stated: every row that is not the header pushes exactly one
\* candidate.
C18_AsStated ==
    \A k \in RowsDone : ~ IsHeader(k) => Len(ex.pushed[k]) = 1

\* C18: every row that is not the header pushes at most one candidate, and
\* exactly one when its first cell is not blank; the urls array is what the
\* rows pushed, in row order.
C18_Amended ==
    /\ \A k \in RowsDone :
          ~ IsHeader(k) =>
              /\ Len(ex.pushed[k]) <= 1
              /\ trim(ex.data[k][1]) # "" => Len(ex.pushed[k]) = 1
    /\ ex.urls = flatten(ex.pushed)

C18_Witness ==
    /\ ExDone
    /\ ex.data = << <<"https://a.com">>, <<"", "x">>, <<"x", "Referral?code=A1">> >>
    /\ ex.pushed = << <<"https://a.com">>, <<>>, <<"https://cursor.com/Referral?code=A1">> >>
    /\ ex.urls = <<"https://a.com", "https://cursor.com/Referral?code=A1">>

(***************************************************************************)
(* Claims about rejected input, checked under Spec.                        *)
(***************************************************************************)
TooLarge(f) == f.size > 5 * 1024 * 1024

HasCsvName(f) == endsWith(f.name, ".csv")

\* the types the file picker and the drop zone do not accept
PickerRefuses(f) == f.type \notin {"text/csv", "text/plain", "application/csv"} /\ ~ HasCsvName(f)
DropRefuses(f) == f.type # "text/csv" /\ ~ HasCsvName(f)

PickerRejects == {f \in Files : TooLarge(f) \/ PickerRefuses(f)}
DropRejects == {f \in Files : TooLarge(f) \/ DropRefuses(f)}

\* a step that shows one more toast, an error, and leaves the record list,
\* the links text and the upload in flight as they were, with isProcessing
\* false after it
RejectedStep ==
    /\ Len(toasts') = Len(toasts) + 1
    /\ SubSeq(toasts', 1, Len(toasts)) = toasts
    /\ toasts'[Len(toasts')].type = "error"
    /\ qrCodes' = qrCodes
    /\ links' = links
    /\ upload' = upload
    /\ upload'.pc = "idle"
    /\ isProcessing' = FALSE

\* C20: a manual input with no non-blank line, a file above 5 MB and a file
\* of a type that is not accepted are rejected: the step shows an error
\* message, leaves the record list and the links text as they were, schedules
\* no deferred generation and ends with isProcessing false.
C20_Rejection ==
    [][ /\ IsBlank(links) /\ generateQRCodes => RejectedStep
        /\ \A f \in PickerRejects : handleFileChange({f}) => RejectedStep
        /\ \A f \in DropRejects : handleDrop({f}) => RejectedStep
      ]_vars

C20_Witness ==
    /\ toasts =
          << [message |-> "File size (6.00MB) exceeds maximum allowed size of 5MB. Please use a smaller file.",
              type |-> "error"],
             [message |-> "Invalid file type. Please upload a CSV file (.csv extension).",
              type |-> "error"] >>
    /\ qrCodes = <<>>
    /\ upload = UploadIdle
    /\ ~ isProcessing

(***************************************************************************)
(* Claims about uploads, checked under Spec.                               *)
(***************************************************************************)
HasToast(message) == \E k \in 1 .. Len(toasts) : toasts[k].message = message

\* the toasts a step adds
NewToasts == SubSeq(toasts', Len(toasts) + 1, Len(toasts'))

ErrorsIn(ts) == {k \in 1 .. Len(ts) : ts[k].type = "error"}

\* the readable files whose extraction yields no candidate
ZeroCandidateFiles ==
    {f \in Files : f.readable /\ Len(extractUrls(PapaParse(f.text))) = 0}

\* C21: when the extraction of an uploaded CSV yields no candidate, the step
\* reports exactly one error, produces no records and keeps the prior state:
\* the links text and the record list are unchanged, no deferred generation
\* is scheduled, and isProcessing is false after it.
C21_ZeroCandidates ==
    [][ upload.pc = "reading" /\ upload.file \in ZeroCandidateFiles /\ FileTextDone =>
            /\ SubSeq(toasts', 1, Len(toasts)) = toasts
            /\ Cardinality(ErrorsIn(NewToasts)) = 1
            /\ qrCodes' = qrCodes
            /\ links' = links
            /\ upload'.pc = "idle"
            /\ isProcessing' = FALSE
      ]_vars

C21_Witness ==
    /\ HasToast("No valid URLs found in the CSV file. Please ensure URLs are in the first column.")
    /\ links = "b.com"
    /\ qrCodes = <<>>
    /\ upload = UploadIdle
    /\ ~ isProcessing

\* the MIME types of CSV content
CsvMimeTypes == {"text/csv", "application/csv"}

\* C22: a file reaches CSV parsing only if its name ends in .csv or its MIME
\* type is a CSV type, through the drop zone and through the file picker.
C22_AsStated ==
    upload.pc \in {"reading", "timer"} =>
        endsWith(upload.file.name, ".csv") \/ upload.file.type \in CsvMimeTypes

(***************************************************************************)
(* Claims about the record list, checked under Spec and SpecCap.           *)
(***************************************************************************)
\* a record's url is the candidate, or the candidate behind "https://"
BuiltFrom(rec, candidate) == rec.url \in {candidate, "https://" \o candidate}

\* C7: whenever the record list is non-empty its ids are 1, 2, ..., n in list
\* order, and its records are those of the most recent run only: record i is
\* built from candidate i of that run, nothing of an earlier list remains.
C7_DenseIds ==
    Len(qrCodes) > 0 =>
        /\ \A i \in 1 .. Len(qrCodes) : qrCodes[i].id = i
        /\ Len(qrCodes) <= Len(lastRun)
        /\ \A i \in 1 .. Len(qrCodes) : BuiltFrom(qrCodes[i], lastRun[i])

\* a second run: the toast of a first run of one record is still on screen
C7_Witness ==
    /\ Len(qrCodes) = 2
    /\ qrCodes[1].id = 1 /\ qrCodes[2].id = 2
    /\ lastRun = <<"b.com", "https://a.com">>
    /\ HasToast("Generated 1 QR codes with 1 invalid URL(s). Invalid URLs will be marked.")

\* C8 as stated: every run produces exactly one record per candidate, in
\* candidate order: the record list is as long as the candidate list and
\* record i is built from candidate i.
C8_AsStated ==
    Len(qrCodes) > 0 =>
        /\ Len(qrCodes) = Len(lastRun)
        /\ \A i \in 1 .. Len(qrCodes) : BuiltFrom(qrCodes[i], lastRun[i])

\* C8 (amended): every run produces exactly one record per candidate among the
\* first MAX_QR_CODES candidates, in candidate order: the record list is as
\* long as the candidate list or MAX_QR_CODES, whichever is smaller, and record
\* i is built from candidate i; invalid and suspicious candidates are kept.
C8_Amended ==
    Len(qrCodes) > 0 =>
        /\ Len(qrCodes) = IF Len(lastRun) < MAX_QR_CODES THEN Len(lastRun)
                          ELSE MAX_QR_CODES
        /\ \A i \in 1 .. Len(qrCodes) :
              /\ qrCodes[i].id = i
              /\ BuiltFrom(qrCodes[i], lastRun[i])

C8_Witness ==
    /\ Len(lastRun) = MAX_QR_CODES + 1
    /\ Len(qrCodes) = MAX_QR_CODES
    /\ ~ qrCodes[2].isValid /\ qrCodes[2].url = "not a url"
    /\ qrCodes[3].hasWarning /\ ~ qrCodes[3].isValid
    /\ qrCodes[MAX_QR_CODES].isValid

\* C9: every record's url begins with http:// or https://, also when the
\* record's isValid is false.
C9_AsStated ==
    \A i \in 1 .. Len(qrCodes) :
        startsWith(qrCodes[i].url, "http://") \/ startsWith(qrCodes[i].url, "https://")

\* the warnings of a toast list that speak of the maximum
LimitWarnings(ts) ==
    {k \in 1 .. Len(ts) :
        ts[k].type = "warning"
          /\ (includes(ts[k].message, "maximum limit") \/ includes(ts[k].message, "Maximum "))}

\* a step that starts a run of more than the maximum item count of candidates:
\* the Generate button, or the complete callback of an upload
ManualOverCap == lastRun' # lastRun /\ upload' = upload /\ Len(lastRun') > 750
UploadOverCap == upload.pc = "reading" /\ upload'.pc = "timer" /\ Len(upload'.urls) > 750

\* the record list is the first 750 candidates of its run, numbered 1..750
CappedAt750 ==
    /\ Len(qrCodes) <= 750
    /\ Len(qrCodes) > 0 /\ Len(lastRun) > 750 =>
          /\ Len(qrCodes) = 750
          /\ \A i \in 1 .. 750 : qrCodes[i].id = i /\ BuiltFrom(qrCodes[i], lastRun[i])

\* C23 as stated: the record list never holds more than 750 records; a run
\* with more candidates keeps the first 750 in order, numbered 1..750, and
\* issues one limit warning.
C23_AsStated ==
    /\ []CappedAt750
    /\ [][ManualOverCap \/ UploadOverCap => Cardinality(LimitWarnings(NewToasts)) = 1]_vars

\* the warnings of a manual run over the cap: the limit warning, once
ManualWarnings ==
    /\ Cardinality(LimitWarnings(NewToasts)) = 1
    /\ NewToasts[1] =
          [message |-> "Processing first 750 of " \o toDigits(Len(lastRun'))
                          \o " URLs (maximum limit).",
           type |-> "warning"]

\* the warnings of an upload over the cap: the line-count warning when the
\* file has more than 760 lines, then the limit warning
UploadWarnings ==
    LET lineCount == Len(splitLines(upload.file.text))
    IN  /\ NewToasts[Len(NewToasts)] =
              [message |-> "Processing first 750 of " \o toDigits(Len(upload'.urls))
                              \o " URLs (maximum limit).",
               type |-> "warning"]
        /\ Cardinality(LimitWarnings(NewToasts)) = (IF lineCount > 760 THEN 2 ELSE 1)
        /\ (lineCount > 760 =>
              NewToasts[1] =
                  [message |-> "File contains " \o toDigits(lineCount)
                                  \o " lines. Maximum 750 QR codes will be generated.",
                   type |-> "warning"])

\* C23 (amended): as stated, but an upload whose file has more than 760 lines
\* shows a line-count warning besides the one limit warning.
C23_Amended ==
    /\ []CappedAt750
    /\ [][(ManualOverCap => ManualWarnings) /\ (UploadOverCap => UploadWarnings)]_vars

C23_Witness ==
    /\ Len(lastRun) = 761
    /\ Len(qrCodes) = 750
    /\ qrCodes[750].id = 750
    /\ HasToast("File contains 761 lines. Maximum 750 QR codes will be generated.")
    /\ HasToast("Processing first 750 of 761 URLs (maximum limit).")

\* the advisory table or one of the two heuristics flags the string
Flagged(s) ==
    \/ \E k \in 1 .. 6 : MatchesPattern(k, s)
    \/ /\ URLParse(AdvisoryText(s)).ok
       /\ DottedQuad(URLParse(AdvisoryText(s)).hostname) \/ Len(s) > 200

\* C24 as stated: every record with hasWarning = true has isValid = true, and
\* a record has a warningMessage exactly when hasWarning is true.
C24_AsStated ==
    \A i \in 1 .. Len(qrCodes) :
        /\ qrCodes[i].hasWarning => qrCodes[i].isValid
        /\ qrCodes[i].warningMessage # Undefined <=> qrCodes[i].hasWarning

\* C24 (amended): the advisory does not depend on validity: a record has
\* hasWarning = true exactly when its url is flagged, also when isValid is
\* false, and it has a warningMessage exactly when hasWarning is true.
C24_Amended ==
    \A i \in 1 .. Len(qrCodes) :
        /\ qrCodes[i].hasWarning <=> Flagged(qrCodes[i].url)
        /\ qrCodes[i].warningMessage # Undefined <=> qrCodes[i].hasWarning

C24_Witness ==
    /\ Len(qrCodes) = 2
    /\ qrCodes[1] = [id |-> 1, url |-> "javascript:alert(1)", isValid |-> FALSE,
                     hasWarning |-> TRUE,
                     warningMessage |-> "JavaScript URLs are not allowed"]
    /\ qrCodes[2] = [id |-> 2, url |-> "https://1.2.3.4", isValid |-> TRUE,
                     hasWarning |-> TRUE,
                     warningMessage |-> "Warning: IP address detected (verify source)"]

\* C26 as stated: an upload started before goBack or clearAll cannot store
\* records after it, so records never exist while the links text is empty.
C26_AsStated == Len(qrCodes) > 0 => links # ""

\* the cells of a print view, and those that show a record
AllCells(view) == (DOMAIN view) \X ((0 .. GRID_ROWS - 1) \X (0 .. GRID_COLS - 1))
RecordCells(view) == {c \in AllCells(view) : view[c[1]][c[2]].shows = "record"}

\* C27: the print view of a record list of length N >= 1 has ceil(N/9) pages
\* of 3 x 3 cells, every record id 1..N is shown in exactly one cell, and no
\* cell shows 'No data'.
C27_PrintView ==
    Len(qrCodes) >= 1 =>
        With(printView(qrCodes), LAMBDA view :
            /\ DOMAIN view = 0 .. Ceil(Len(qrCodes), 9) - 1
            /\ \A c \in AllCells(view) : view[c[1]][c[2]].shows # "No data"
            /\ {view[c[1]][c[2]].number : c \in RecordCells(view)} = 1 .. Len(qrCodes)
            /\ Cardinality(RecordCells(view)) = Len(qrCodes))

C27_Witness ==
    /\ Len(qrCodes) = MAX_QR_CODES
    /\ DOMAIN printView(qrCodes) = 0 .. 83
    /\ printView(qrCodes)[83][<<0, 0>>] = [number |-> 84, shows |-> "record"]
    /\ printView(qrCodes)[83][<<2, 2>>] = [number |-> None, shows |-> "empty"]
    /\ printView(qrCodes)[0][<<2, 2>>] = [number |-> 673, shows |-> "record"]

\* the links text an upload stores for its candidates
StoredLinks(urls) == joinLines(slice0(urls, MAX_QR_CODES))

\* C29 as stated: the record list stored by an upload's deferred batch is the
\* record list generateQRCodes produces from the links text the same upload
\* stored.
C29_AsStated ==
    [][ upload.pc = "timer" /\ DeferredBatch =>
            qrCodes' = generateRecords(slice0(linkListOf(StoredLinks(upload.urls)),
                                              MAX_QR_CODES))
      ]_vars

\* a step that stores the records of a run
RunStep == qrCodes' # qrCodes /\ qrCodes' # <<>>

InvalidIn(q) == {i \in 1 .. Len(q) : ~ q[i].isValid}
WarnedIn(q) == {i \in 1 .. Len(q) : q[i].hasWarning}

\* the toasts of a run's step are one notification of the given type whose
\* message reports the count
OneSummary(type, count) ==
    /\ Len(NewToasts) = 1
    /\ NewToasts[1].type = type
    /\ includes(NewToasts[1].message, " " \o count)

SummaryOf(q) ==
    IF InvalidIn(q) # {}
    THEN OneSummary("warning", toDigits(Cardinality(InvalidIn(q))) \o " invalid URL(s)")
    ELSE IF WarnedIn(q) # {}
    THEN OneSummary("info", toDigits(Cardinality(WarnedIn(q))) \o " warning(s)")
    ELSE NewToasts = <<>>

\* C30: a run that stores records (manual or upload) adds one notification
\* with the invalid count when an item is invalid, otherwise one with the
\* warning count when an item is warned, otherwise none; never one per item.
C30_Summary ==
    [][ RunStep => SubSeq(toasts', 1, Len(toasts)) = toasts /\ SummaryOf(qrCodes') ]_vars

C30_Witness ==
    /\ Len(qrCodes) = 2
    /\ Cardinality(InvalidIn(qrCodes)) = 1
    /\ Cardinality(WarnedIn(qrCodes)) = 2
    /\ toasts = <<[message |-> "Generated 2 QR codes with 1 invalid URL(s). Invalid URLs will be marked.",
                   type |-> "warning"]>>

StaysBusy == upload.pc = "reading" /\ upload'.pc = "timer" => isProcessing'
\* and leaves it in the step that stores its records
IdleWithRecords ==
    upload.pc = "timer" /\ isProcessing /\ ~ isProcessing' =>
        /\ qrCodes' = batchRecords(slice0(upload.urls, MAX_QR_CODES))
        /\ qrCodes' # <<>>
        /\ upload'.pc = "idle"

\* C28: whenever isProcessing is true it is false again later, on every path
\* of generateQRCodes and handleFileUpload; an upload with candidates keeps it
\* true until the deferred batch stores the records.
C28_Settles ==
    /\ isProcessing ~> ~ isProcessing
    /\ [][StaysBusy /\ IdleWithRecords]_vars

C28_Witness ==
    /\ ~ isProcessing
    /\ upload = UploadIdle
    /\ Len(qrCodes) = 2
    /\ lastRun = <<"b.com", "not a url">>
    /\ HasToast("Processed 2 URLs from CSV. 1 invalid URL(s) found.")

====
